---- MODULE Spec2Model ----
(***************************************************************************)
(* Model of myapp/urls.py: the URL configuration of the application.       *)
(*                                                                         *)
(* The module body is executed once, statement by statement: the three     *)
(* imports, the evaluation of the list display (one path(...) call per     *)
(* element, in textual order) and the binding of the name urlpatterns.     *)
(* After the module is loaded, the framework's dispatcher resolves request *)
(* paths against urlpatterns and answers reverse lookups by name.          *)
(*                                                                         *)
(* Strings that are matched (routes, request paths) are sequences of       *)
(* one-character strings, so that matching is computed character by       *)
(* character.  Handler references and route names are only compared for    *)
(* equality and are kept as strings.                                       *)
(***************************************************************************)
EXTENDS Integers, Sequences, FiniteSets, TLC

VARIABLES
    pc,           \* the statement of urls.py that runs next, or "loaded"
    namespace,    \* the module-level names bound so far
    building,     \* the elements of the list display evaluated so far
    urlpatterns,  \* the value bound to urlpatterns (<<>> while unbound)
    responses,    \* <<request path, outcome>> of the dispatches served
    reversed      \* <<name, outcome>> of the reverse lookups answered

vars == <<pc, namespace, building, urlpatterns, responses, reversed>>

---------------------------------------------------------------------------
(* Bounds of the model *)

\* how many distinct dispatches and reverse lookups are recorded
MaxRequests == 4

---------------------------------------------------------------------------
(* The literals of urls.py *)

route_root == << >>
route_data_access3 == <<"d","a","t","a","-","a","c","c","e","s","s","3">>
route_html1 == <<"h","t","m","l","1">>
route_html2 == <<"h","t","m","l","2">>
\* the route of the commented-out line 7
route_data_acces2 == <<"d","a","t","a","-","a","c","c","e","s","2">>

\* path(route, view, name=name): one route entry
path(route, view, name) == [route |-> route, view |-> view, name |-> name]

\* line 7 taken as live code
UrlpatternsWithDisabledRoute ==
    << path(route_root, "views.index", "index"),
       path(route_data_acces2, "views.dataRender2", "index2"),
       path(route_data_access3, "test.dataRender3", "index3"),
       path(route_html1, "views.htmlPage", "html_page2"),
       path(route_html2, "test.htmlPage2", "html_page3") >>

\* the handlers of lines 9 and 10 exchanged
UrlpatternsSwappedViews ==
    << path(route_root, "views.index", "index"),
       path(route_data_access3, "test.dataRender3", "index3"),
       path(route_html1, "test.htmlPage2", "html_page2"),
       path(route_html2, "views.htmlPage", "html_page3") >>

\* the names of lines 9 and 10 exchanged
UrlpatternsSwappedNames ==
    << path(route_root, "views.index", "index"),
       path(route_data_access3, "test.dataRender3", "index3"),
       path(route_html1, "views.htmlPage", "html_page3"),
       path(route_html2, "test.htmlPage2", "html_page2") >>

\* line 10 copied from line 9 with the name left as it was
UrlpatternsDuplicateName ==
    << path(route_root, "views.index", "index"),
       path(route_data_access3, "test.dataRender3", "index3"),
       path(route_html1, "views.htmlPage", "html_page2"),
       path(route_html2, "test.htmlPage2", "html_page2") >>

\* line 10 copied from line 9 with the route left as it was
UrlpatternsDuplicateRoute ==
    << path(route_root, "views.index", "index"),
       path(route_data_access3, "test.dataRender3", "index3"),
       path(route_html1, "views.htmlPage", "html_page2"),
       path(route_html1, "test.htmlPage2", "html_page3") >>

\* lines 8 and 9 in the other order
UrlpatternsReordered ==
    << path(route_root, "views.index", "index"),
       path(route_html1, "views.htmlPage", "html_page2"),
       path(route_data_access3, "test.dataRender3", "index3"),
       path(route_html2, "test.htmlPage2", "html_page3") >>

\* line 9 written with a trailing slash
UrlpatternsTrailingSlash ==
    << path(route_root, "views.index", "index"),
       path(route_data_access3, "test.dataRender3", "index3"),
       path(route_html1 \o <<"/">>, "views.htmlPage", "html_page2"),
       path(route_html2, "test.htmlPage2", "html_page3") >>

\* the list display of lines 5-12: line 7 is a comment and contributes nothing
UrlpatternsDisplay ==
    << path(route_root, "views.index", "index"),
       path(route_data_access3, "test.dataRender3", "index3"),
       path(route_html1, "views.htmlPage", "html_page2"),
       path(route_html2, "test.htmlPage2", "html_page3") >>

---------------------------------------------------------------------------
(* The dispatcher that consumes urlpatterns *)

Http404 == "Http404"
NoReverseMatch == "NoReverseMatch"

\* a literal route matches a path when the two are the same string
Match(route, p) ==
    /\ Len(p) = Len(route)
    /\ \A i \in 1..Len(route) : p[i] = route[i]

\* the positions of the entries of table whose pattern matches p
Matching(table, p) == {i \in 1..Len(table) : Match(table[i].route, p)}

Min(S) == CHOOSE i \in S : \A j \in S : i <= j
Max(S) == CHOOSE i \in S : \A j \in S : j <= i

\* scan table in order and take the handler of the first matching entry
ResolveIn(table, p) ==
    IF Matching(table, p) = {} THEN Http404
    ELSE table[Min(Matching(table, p))].view

\* a request path starts with the root slash, which is not part of any route
Resolve(table, request) ==
    IF request = << >> \/ Head(request) # "/" THEN Http404
    ELSE ResolveIn(table, Tail(request))

\* the positions of the entries of table named name
Named(table, name) == {i \in 1..Len(table) : table[i].name = name}

\* the path of the entry named name, under the root slash
Reverse(table, name) ==
    IF Named(table, name) = {} THEN NoReverseMatch
    ELSE <<"/">> \o table[Max(Named(table, name))].route

---------------------------------------------------------------------------
(* The requests and names the model tries *)

Literals ==
    {route_root, route_data_access3, route_html1, route_html2, route_data_acces2}

\* the characters a probe path may carry after a literal
ExtChars == {"/", "0"}

\* the literals, each literal without its last character, and each literal
\* followed by one more character
Probes ==
    Literals
      \cup {SubSeq(s, 1, Len(s) - 1) : s \in {t \in Literals : Len(t) > 0}}
      \cup {s \o <<c>> : s \in Literals, c \in ExtChars}

Requests == {<<"/">> \o p : p \in Probes}

LookupNames == {"index", "index2", "index3", "html_page2", "html_page3"}

---------------------------------------------------------------------------
(* Loading urls.py *)

Init ==
    /\ pc = "import_path"
    /\ namespace = {}
    /\ building = << >>
    /\ urlpatterns = << >>
    /\ responses = {}
    /\ reversed = {}

\* line 1: from django.urls import path
ImportPath ==
    /\ pc = "import_path"
    /\ namespace' = namespace \cup {"path"}
    /\ pc' = "import_views"
    /\ UNCHANGED <<building, urlpatterns, responses, reversed>>

\* line 2: from . import views
ImportViews ==
    /\ pc = "import_views"
    /\ namespace' = namespace \cup {"views"}
    /\ pc' = "import_test"
    /\ UNCHANGED <<building, urlpatterns, responses, reversed>>

\* line 3: from . TestView import test
ImportTest ==
    /\ pc = "import_test"
    /\ namespace' = namespace \cup {"test"}
    /\ pc' = "list_display"
    /\ UNCHANGED <<building, urlpatterns, responses, reversed>>

\* lines 6-10: the next element of the list display is evaluated
EvalElement ==
    /\ pc = "list_display"
    /\ Len(building) < Len(UrlpatternsDisplay)
    /\ {"path", "views", "test"} \subseteq namespace
    /\ building' = Append(building, UrlpatternsDisplay[Len(building) + 1])
    /\ UNCHANGED <<pc, namespace, urlpatterns, responses, reversed>>

\* the name is bound as soon as the first element has been evaluated
AssignEarly ==
    /\ pc = "list_display"
    /\ Len(building) >= 1
    /\ urlpatterns' = building
    /\ namespace' = namespace \cup {"urlpatterns"}
    /\ pc' = "loaded"
    /\ UNCHANGED <<building, responses, reversed>>

\* the name is bound, and an entry is later inserted in front of the bound list
AssignAndExtend ==
    \/ /\ pc = "list_display"
       /\ Len(building) = Len(UrlpatternsDisplay)
       /\ urlpatterns' = building
       /\ namespace' = namespace \cup {"urlpatterns"}
       /\ pc' = "loaded"
       /\ UNCHANGED <<building, responses, reversed>>
    \/ /\ pc = "loaded"
       /\ Len(urlpatterns) = Len(UrlpatternsDisplay)
       /\ urlpatterns' = <<path(route_html1, "test.htmlPage2", "html_page3")>> \o urlpatterns
       /\ UNCHANGED <<pc, namespace, building, responses, reversed>>

\* lines 5 and 12: the finished list is bound to urlpatterns
Assign ==
    /\ pc = "list_display"
    /\ Len(building) = Len(UrlpatternsDisplay)
    /\ urlpatterns' = building
    /\ namespace' = namespace \cup {"urlpatterns"}
    /\ pc' = "loaded"
    /\ UNCHANGED <<building, responses, reversed>>

---------------------------------------------------------------------------
(* Using the loaded table *)

Served == Cardinality(responses) + Cardinality(reversed)

\* the dispatcher resolves one request path
Dispatch(request) ==
    /\ pc = "loaded"
    /\ Served < MaxRequests
    /\ responses' = responses \cup {<<request, Resolve(urlpatterns, request)>>}
    /\ UNCHANGED <<pc, namespace, building, urlpatterns, reversed>>

\* a collaborator asks for the path of a name
ReverseLookup(name) ==
    /\ pc = "loaded"
    /\ Served < MaxRequests
    /\ reversed' = reversed \cup {<<name, Reverse(urlpatterns, name)>>}
    /\ UNCHANGED <<pc, namespace, building, urlpatterns, responses>>

Next ==
    \/ ImportPath
    \/ ImportViews
    \/ ImportTest
    \/ EvalElement
    \/ Assign
    \/ \E request \in Requests : Dispatch(request)
    \/ \E name \in LookupNames : ReverseLookup(name)

Spec == Init /\ [][Next]_vars

---------------------------------------------------------------------------
(* Properties *)

Slash(p) == <<"/">> \o p

Loaded == pc = "loaded"

\* the four bindings as the specification lists them
DeclaredBindings ==
    { [route |-> route_root,         view |-> "views.index",      name |-> "index"],
      [route |-> route_data_access3, view |-> "test.dataRender3", name |-> "index3"],
      [route |-> route_html1,        view |-> "views.htmlPage",   name |-> "html_page2"],
      [route |-> route_html2,        view |-> "test.htmlPage2",   name |-> "html_page3"] }

DeclaredRoutes == {b.route : b \in DeclaredBindings}

\* every ordering of the entries of table
Perms(table) ==
    { [i \in 1..Len(table) |-> table[f[i]]] :
        f \in {g \in [1..Len(table) -> 1..Len(table)] :
                 \A i, j \in 1..Len(table) : g[i] = g[j] => i = j} }

\* C1: once the table is loaded, a request for exactly one of the four
\* declared paths is resolved to the handler bound to that path, exactly one
\* entry matches it, and every dispatch served for it recorded that handler.
C1_ExactPathSelectsBoundHandler ==
    Loaded =>
        \A b \in DeclaredBindings :
            /\ Resolve(urlpatterns, Slash(b.route)) = b.view
            /\ Cardinality(Matching(urlpatterns, b.route)) = 1
            /\ \A r \in responses : r[1] = Slash(b.route) => r[2] = b.view

C1_Witness ==
    /\ Loaded
    /\ <<Slash(route_root), "views.index">> \in responses
    /\ <<Slash(route_data_access3), "test.dataRender3">> \in responses
    /\ <<Slash(route_html1), "views.htmlPage">> \in responses
    /\ <<Slash(route_html2), "test.htmlPage2">> \in responses

\* C2: in every reachable state no entry (evaluated or bound) has the route
\* 'data-acces2', the handler views.dataRender2 or the name 'index2'; a
\* request for 'data-acces2' is not found and a lookup of 'index2' fails.
C2_DisabledRouteAbsent ==
    /\ \A table \in {building, urlpatterns} :
         /\ Matching(table, route_data_acces2) = {}
         /\ Named(table, "index2") = {}
         /\ \A i \in 1..Len(table) : table[i].view # "views.dataRender2"
    /\ Resolve(urlpatterns, Slash(route_data_acces2)) = Http404
    /\ \A r \in responses :
         /\ r[2] # "views.dataRender2"
         /\ r[1] = Slash(route_data_acces2) => r[2] = Http404
    /\ \A r \in reversed : r[1] = "index2" => r[2] = NoReverseMatch

C2_Witness ==
    /\ Loaded
    /\ <<Slash(route_data_acces2), Http404>> \in responses
    /\ <<"index2", NoReverseMatch>> \in reversed

\* C3: once the table is loaded, reverse lookup of each registered name gives
\* the literal path of the entry carrying it, under the root slash: index ->
\* /, index3 -> /data-access3, html_page2 -> /html1, html_page3 -> /html2.
C3_ReverseGivesLiteralPath ==
    Loaded =>
        \A b \in DeclaredBindings :
            /\ Reverse(urlpatterns, b.name) = Slash(b.route)
            /\ Tail(Reverse(urlpatterns, b.name)) = b.route
            /\ \A r \in reversed : r[1] = b.name => r[2] = Slash(b.route)

C3_Witness ==
    /\ Loaded
    /\ <<"index", Slash(route_root)>> \in reversed
    /\ <<"index3", Slash(route_data_access3)>> \in reversed
    /\ <<"html_page2", Slash(route_html1)>> \in reversed
    /\ <<"html_page3", Slash(route_html2)>> \in reversed

\* C4: in every reachable state no two entries (evaluated or bound) carry the
\* same name, and once loaded each of the four names names exactly one entry.
C4_NamesUnique ==
    /\ \A table \in {building, urlpatterns} :
         \A i, j \in 1..Len(table) : table[i].name = table[j].name => i = j
    /\ Loaded =>
         /\ {urlpatterns[i].name : i \in 1..Len(urlpatterns)}
              = {"index", "index3", "html_page2", "html_page3"}
         /\ \A n \in {"index", "index3", "html_page2", "html_page3"} :
              Cardinality(Named(urlpatterns, n)) = 1

C4_Witness ==
    /\ Loaded
    /\ Len(urlpatterns) = 4
    /\ \E r \in reversed : r[2] # NoReverseMatch

\* C5: once the table is loaded no step changes it, whether the step is a
\* dispatch or a reverse lookup, and no request path has ever been dispatched
\* to two different outcomes.
C5_TableImmutable ==
    /\ [][Loaded => urlpatterns' = urlpatterns]_vars
    /\ [](\A a, b \in responses : a[1] = b[1] => a[2] = b[2])
    /\ [](\A a, b \in reversed : a[1] = b[1] => a[2] = b[2])

C5_Witness ==
    /\ Loaded
    /\ \E r \in responses : r[2] = Http404
    /\ \E r \in responses : r[2] # Http404
    /\ \E r \in reversed : r[2] = NoReverseMatch
    /\ \E r \in reversed : r[2] # NoReverseMatch

\* C6: the loaded table is exactly the four declared entries in declaration
\* order, and every dispatch served recorded the handler of the first entry,
\* in that order, whose pattern equals the requested path (not found if none).
C6_DeclarationOrder ==
    Loaded =>
        /\ urlpatterns =
             << [route |-> route_root, view |-> "views.index", name |-> "index"],
                [route |-> route_data_access3, view |-> "test.dataRender3", name |-> "index3"],
                [route |-> route_html1, view |-> "views.htmlPage", name |-> "html_page2"],
                [route |-> route_html2, view |-> "test.htmlPage2", name |-> "html_page3"] >>
        /\ \A r \in responses :
             \/ /\ r[2] = Http404
                /\ \A i \in 1..Len(urlpatterns) : urlpatterns[i].route # Tail(r[1])
             \/ \E i \in 1..Len(urlpatterns) :
                  /\ urlpatterns[i].route = Tail(r[1])
                  /\ \A j \in 1..(i - 1) : urlpatterns[j].route # Tail(r[1])
                  /\ r[2] = urlpatterns[i].view

C6_Witness ==
    /\ Loaded
    /\ <<Slash(route_data_access3), "test.dataRender3">> \in responses
    /\ <<Slash(route_html1), "views.htmlPage">> \in responses

\* C7: once the table is loaded, every request path matches at most one
\* entry, and first-match dispatch of a served request over any permutation
\* of the entries gives the outcome that dispatch over the declared order
\* recorded for it (the same handler, or the same not-found).
C7_OrderNotObservable ==
    Loaded =>
        /\ \A request \in Requests :
             Cardinality(Matching(urlpatterns, Tail(request))) <= 1
        /\ \A perm \in Perms(urlpatterns) : \A r \in responses :
             Resolve(perm, r[1]) = r[2]

C7_Witness ==
    /\ Loaded
    /\ Cardinality(Perms(urlpatterns)) = 24
    /\ \E r \in responses : r[2] = Http404
    /\ \E r \in responses : r[2] = "test.htmlPage2"

\* C8: nothing is served and the name urlpatterns is unbound until the module
\* is loaded; when it is loaded the bound table holds all four evaluated
\* entries; and the table is assigned only by the step that ends loading.
C8_ConstructionPrecedesUse ==
    /\ [](~Loaded => /\ Served = 0
                     /\ urlpatterns = << >>
                     /\ "urlpatterns" \notin namespace)
    /\ [](Loaded => /\ Len(urlpatterns) = 4
                    /\ urlpatterns = building
                    /\ "urlpatterns" \in namespace)
    /\ [][urlpatterns' # urlpatterns => ~Loaded /\ Loaded']_vars

C8_Witness ==
    /\ Loaded
    /\ responses # {}
    /\ reversed # {}

\* C9: once the table is loaded, for every entry the path returned by reverse
\* lookup of its name is dispatched to its handler, and reverse lookup of the
\* name of the entry matched by its pattern returns its pattern; the recorded
\* lookups and dispatches agree with this.
C9_ReverseDispatchRoundTrip ==
    Loaded =>
        /\ \A i \in 1..Len(urlpatterns) :
             /\ Reverse(urlpatterns, urlpatterns[i].name) # NoReverseMatch
             /\ Resolve(urlpatterns, Reverse(urlpatterns, urlpatterns[i].name))
                  = urlpatterns[i].view
             /\ Matching(urlpatterns, urlpatterns[i].route) # {}
             /\ Reverse(urlpatterns,
                        urlpatterns[Min(Matching(urlpatterns, urlpatterns[i].route))].name)
                  = Slash(urlpatterns[i].route)
        /\ \A v \in reversed : \A r \in responses :
             (v[2] # NoReverseMatch /\ r[1] = v[2]) =>
                 \E i \in 1..Len(urlpatterns) :
                     urlpatterns[i].name = v[1] /\ urlpatterns[i].view = r[2]

C9_Witness ==
    /\ Loaded
    /\ <<"html_page2", Slash(route_html1)>> \in reversed
    /\ <<Slash(route_html1), "views.htmlPage">> \in responses
    /\ <<"html_page3", Slash(route_html2)>> \in reversed
    /\ <<Slash(route_html2), "test.htmlPage2">> \in responses

\* C10: once the table is loaded, a request path that is not one of the four
\* declared literals matches no entry and is not found, every such dispatch
\* served recorded not-found, and serving it left the table unchanged.
C10_OnlyExactPathsMatch ==
    /\ [](Loaded =>
            /\ \A request \in Requests :
                 Tail(request) \notin DeclaredRoutes =>
                     /\ Matching(urlpatterns, Tail(request)) = {}
                     /\ Resolve(urlpatterns, request) = Http404
            /\ \A r \in responses :
                 Tail(r[1]) \notin DeclaredRoutes => r[2] = Http404)
    /\ [][(\E r \in responses' \ responses : r[2] = Http404)
             => urlpatterns' = urlpatterns]_vars

C10_Witness ==
    /\ Loaded
    /\ <<Slash(<<"h","t","m","l">>), Http404>> \in responses
    /\ <<Slash(<<"h","t","m","l","1","0">>), Http404>> \in responses
    /\ <<Slash(<<"h","t","m","l","1","/">>), Http404>> \in responses

====
